---- MODULE Spec2Model ----
(***************************************************************************)
(* Thumbnail generation and caching subsystem of daidori-manager-tauri.    *)
(*                                                                         *)
(*   SpecLRU  - ThumbnailMemoryCache (cache/memory.rs): get / insert       *)
(*   SpecPsd  - extract_psd_embedded_thumbnail (thumbnail/psd.rs)          *)
(*   SpecKey  - cache key derivation of generate_thumbnail                 *)
(*   Spec     - generate_thumbnail requests running concurrently on the    *)
(*              blocking pool against one cache directory                  *)
(*   SpecLib  - the same for the generate_thumbnail of lib.rs               *)
(*   SpecVal  - validate_dimensions (image_utils.rs)                       *)
(*   SpecGen  - generate_psd_thumbnail / generate_image_thumbnail          *)
(***************************************************************************)
EXTENDS Integers, Sequences, FiniteSets, TLC

VARIABLES
    \* ---- ThumbnailMemoryCache under test (SpecLRU)
    mc,         \* [cache, order, max_size]: the struct of cache/memory.rs
    touchSeq,   \* history: keys ordered by their most recent touch, oldest first
    lastCall,   \* history: the last call made on mc, with what it returned
    lastIns,    \* history: the value last inserted for each key still cached
    \* ---- extract_psd_embedded_thumbnail (SpecPsd)
    data,       \* the input byte slice
    pos,        \* cursor.position()
    ppc,        \* position in the function
    resources_end,
    loop_start_pos,
    result,     \* the returned Option<Vec<u8>>
    iters,      \* history: completed loop iterations
    maxRead,    \* history: one past the highest index of data ever read
    alloc,      \* history: size of the largest buffer reserved for the payload
    \* ---- cache key derivation (SpecKey)
    reqA, reqB, \* two requests' (file_path, modified_time, size, quality)
    keyA, keyB, \* the strings hashed for them
    kpc,
    \* ---- generate_thumbnail (Spec)
    variant,    \* which generate_thumbnail is built: "mod" or "lib"
    source,     \* the source files: path -> exists?
    disk,       \* the cache directory: cache key -> file
    app_mc,     \* AppState.memory_cache
    req,        \* the requests: request id -> its task
    stable,     \* history: key -> what a "generated" return gave, while neither
                \* the cache file nor the source has been touched since
    \* ---- validate_dimensions (SpecVal)
    vwidth, vheight,  \* the arguments
    vpc,
    vres,       \* the Result returned
    \* ---- generate_psd_thumbnail / generate_image_thumbnail (SpecGen)
    gv,         \* which copy of the functions runs: "mod" or "lib"
    gsrc,       \* the source file: what reading and decoding it gives
    gpc,        \* position in the function
    gimg,       \* the decoded raster in hand: where it came from, its size
    gtrace,     \* history: the calls made, in order
    gres,       \* the Result returned
    \* ---- add_recent_file (SpecRecent)
    recent_file,  \* recent_files.json: absent, unparsable, or the stored list
    rcalls,       \* history: calls made; the clock behind opened_at
    radded,       \* history: the path of the last call that returned Ok
    rlast,        \* the Result of the last call
    rbefore,      \* history: the list the last successful call read
    \* ---- the result-polling loop of run_photoshop_tiff_convert (SpecPoll)
    tpc,          \* "polling" or "exited"
    output_file,  \* the editor's result file: what the loop would read
    progress_file,\* the editor's progress file: its text
    last_progress,
    polls_since_progress,
    all_done,
    \* ---- export_pages (SpecExport)
    pages,        \* the pages argument
    src_exists,   \* page index -> does its source file exist now
    should_move,
    xpc,          \* "reference", "pages" or "done"
    xi,           \* the index of the page the second loop is at (0-based)
    default_size,
    blank_size    \* history: page index -> the size its blank image was given

lruVars == <<mc, touchSeq, lastCall, lastIns>>
psdVars == <<data, pos, ppc, resources_end, loop_start_pos, result, iters, maxRead, alloc>>
keyVars == <<reqA, reqB, keyA, keyB, kpc>>
thVars  == <<variant, source, disk, app_mc, req, stable>>
valVars == <<vwidth, vheight, vpc, vres>>
genVars == <<gv, gsrc, gpc, gimg, gtrace, gres>>
recVars == <<recent_file, rcalls, radded, rlast, rbefore>>
pollVars == <<tpc, output_file, progress_file, last_progress, polls_since_progress, all_done>>
expVars == <<pages, src_exists, should_move, xpc, xi, default_size, blank_size>>
cmdVars == <<recVars, pollVars, expVars>>
coreVars == <<lruVars, psdVars, keyVars, thVars, valVars, genVars>>
vars    == <<coreVars, cmdVars>>
notLru  == <<psdVars, keyVars, thVars, valVars, genVars, cmdVars>>
notPsd  == <<lruVars, keyVars, thVars, valVars, genVars, cmdVars>>
notKey  == <<lruVars, psdVars, thVars, valVars, genVars, cmdVars>>
notTh   == <<lruVars, psdVars, keyVars, valVars, genVars, cmdVars>>
notVal  == <<lruVars, psdVars, keyVars, thVars, genVars, cmdVars>>
notGen  == <<lruVars, psdVars, keyVars, thVars, valVars, cmdVars>>
notRec  == <<coreVars, pollVars, expVars>>
notPoll == <<coreVars, recVars, expVars>>
notExp  == <<coreVars, recVars, pollVars>>

\* Option<T>: None and Some(v)
None    == <<>>
Some(v) == <<v>>

Max(a, b) == IF a >= b THEN a ELSE b
Min(a, b) == IF a <= b THEN a ELSE b

(***************************************************************************)
(* ThumbnailMemoryCache                                                    *)
(***************************************************************************)
MaxCap  == 3      \* capacities 0 .. MaxCap are constructed
NumKeys == 4

CacheKeys   == 1 .. NumKeys
CacheValues == {"v1", "v2"}

\* VecDeque::retain(|k| k != key)
Retain(order, key) == SelectSeq(order, LAMBDA k : k # key)

\* HashMap::insert / HashMap::remove on a map held as a function
MapInsert(m, key, value) ==
    [k \in DOMAIN m \cup {key} |-> IF k = key THEN value ELSE m[k]]
MapRemove(m, key) == [k \in DOMAIN m \ {key} |-> m[k]]

EmptyMap == [k \in {} |-> "v1"]

\* ThumbnailMemoryCache::new
new(max_size) == [cache |-> EmptyMap, order |-> <<>>, max_size |-> max_size]

\* ThumbnailMemoryCache::get with the promotion left out
get_NoPromote(self, key) ==
    IF key \in DOMAIN self.cache
    THEN [self |-> self, ret |-> Some(self.cache[key])]
    ELSE [self |-> self, ret |-> None]

\* ThumbnailMemoryCache::get: the struct afterwards and the value returned
get(self, key) ==
    IF key \in DOMAIN self.cache
    THEN [self |-> [self EXCEPT !.order = Append(Retain(self.order, key), key)],
          ret  |-> Some(self.cache[key])]
    ELSE [self |-> self, ret |-> None]

\* ThumbnailMemoryCache::insert evicting the newest entry instead of the oldest
insert_EvictNewest(self, key, value) ==
    LET evicting == key \notin DOMAIN self.cache
                    /\ Cardinality(DOMAIN self.cache) >= self.max_size
                    /\ self.order # <<>>
        n      == Len(self.order)
        order1 == IF key \in DOMAIN self.cache THEN Retain(self.order, key)
                  ELSE IF evicting THEN SubSeq(self.order, 1, n - 1)
                  ELSE self.order
        cache1 == IF evicting THEN MapRemove(self.cache, self.order[n])
                  ELSE self.cache
    IN  [self EXCEPT !.order = Append(order1, key),
                     !.cache = MapInsert(cache1, key, value)]

\* ThumbnailMemoryCache::insert with the retain of an updated key left out
insert_NoRetain(self, key, value) ==
    LET evicting == key \notin DOMAIN self.cache
                    /\ Cardinality(DOMAIN self.cache) >= self.max_size
                    /\ self.order # <<>>
        order1 == IF evicting THEN Tail(self.order) ELSE self.order
        cache1 == IF evicting THEN MapRemove(self.cache, Head(self.order))
                  ELSE self.cache
    IN  [self EXCEPT !.order = Append(order1, key),
                     !.cache = MapInsert(cache1, key, value)]

\* ThumbnailMemoryCache::insert testing for a full cache before testing for an
\* existing key
insert_EvictOnUpdate(self, key, value) ==
    LET evicting == Cardinality(DOMAIN self.cache) >= self.max_size
                    /\ self.order # <<>>
        order0 == IF evicting THEN Tail(self.order) ELSE self.order
        cache1 == IF evicting THEN MapRemove(self.cache, Head(self.order))
                  ELSE self.cache
    IN  [self EXCEPT !.order = Append(Retain(order0, key), key),
                     !.cache = MapInsert(cache1, key, value)]

\* ThumbnailMemoryCache::insert
insert(self, key, value) ==
    LET evicting == key \notin DOMAIN self.cache
                    /\ Cardinality(DOMAIN self.cache) >= self.max_size
                    /\ self.order # <<>>                 \* pop_front() is Some
        order1 == IF key \in DOMAIN self.cache THEN Retain(self.order, key)
                  ELSE IF evicting THEN Tail(self.order)
                  ELSE self.order
        cache1 == IF evicting THEN MapRemove(self.cache, Head(self.order))
                  ELSE self.cache
    IN  [self EXCEPT !.order = Append(order1, key),
                     !.cache = MapInsert(cache1, key, value)]

\* history of touches: a touch makes the key the most recently touched
Touch(seq, key) == Append(Retain(seq, key), key)

NoCall == [op |-> "none", key |-> 0, value |-> "-", ret |-> None]

LruInit ==
    /\ \E n \in 0 .. MaxCap : mc = new(n)
    /\ touchSeq = <<>>
    /\ lastCall = NoCall
    /\ lastIns = EmptyMap

LruIdle ==
    /\ mc = new(0)
    /\ touchSeq = <<>>
    /\ lastCall = NoCall
    /\ lastIns = EmptyMap

\* a caller runs memory_cache.get(key)
Get(key) ==
    /\ mc' = get(mc, key).self
    /\ touchSeq' = IF key \in DOMAIN mc.cache THEN Touch(touchSeq, key) ELSE touchSeq
    /\ lastCall' = [op |-> "get", key |-> key, value |-> "-",
                    ret |-> get(mc, key).ret]
    /\ UNCHANGED lastIns
    /\ UNCHANGED notLru

\* a caller runs memory_cache.insert(key, value)
Insert(key, value) ==
    /\ mc' = insert(mc, key, value)
    /\ touchSeq' = Touch(touchSeq, key)
    /\ lastCall' = [op |-> "insert", key |-> key, value |-> value, ret |-> None]
    /\ lastIns' = LET all == MapInsert(lastIns, key, value) IN
                  [k \in DOMAIN all \cap DOMAIN mc'.cache |-> all[k]]
    /\ UNCHANGED notLru

LruNext ==
    \/ \E key \in CacheKeys : Get(key)
    \/ \E key \in CacheKeys, value \in CacheValues : Insert(key, value)

(***************************************************************************)
(* extract_psd_embedded_thumbnail                                          *)
(***************************************************************************)
MaxRecords == 2     \* resource records in a generated container

\* Lengths and cursor positions are u32 / u64 in the code. They are held here
\* as <<hi, lo>> = hi * 65536 + lo with 0 <= lo < 65536, so that sizes up to
\* 0xFFFFFFFF and positions beyond them keep their exact value.
W(n)       == <<n \div 65536, n % 65536>>
Add(a, b)  == <<a[1] + b[1] + ((a[2] + b[2]) \div 65536), (a[2] + b[2]) % 65536>>
Lt(a, b)   == a[1] < b[1] \/ (a[1] = b[1] /\ a[2] < b[2])
Le(a, b)   == a = b \/ Lt(a, b)
Sub28(a)   == IF a[2] >= 28 THEN <<a[1], a[2] - 28>> ELSE <<a[1] - 1, a[2] + 65536 - 28>>
U32MAX     == <<65535, 65535>>
Panicked   == <<-1, 0>>

\* u32::from_be_bytes
from_be_bytes(b) == <<b[1] * 256 + b[2], b[3] * 256 + b[4]>>
\* u16::from_be_bytes
from_be_bytes16(b) == b[1] * 256 + b[2]

\* the big-endian bytes of a number, for building inputs
U32(n) == <<n[1] \div 256, n[1] % 256, n[2] \div 256, n[2] % 256>>
U16(n) == <<(n \div 256) % 256, n % 256>>
Zeros(n) == [i \in 1 .. n |-> 0]

SIG_8BPS == <<56, 66, 80, 83>>      \* b"8BPS"
SIG_8BIM == <<56, 66, 73, 77>>      \* b"8BIM"

\* Cursor::read_exact(buf) of n bytes at position p succeeds iff n bytes are left
CanRead(d, p, n) == Le(Add(p, n), W(Len(d)))
\* the n bytes at position p, when they can be read
Bytes(d, p, n)   == SubSeq(d, p[2] + 1, p[2] + n[2])

HeaderFail(read) == [ok |-> FALSE, pos |-> W(0), resources_end |-> W(0), read |-> read]

\* lines 10-31: signature, fixed header, color mode data, resources length
ParseHeader(d) ==
    IF ~CanRead(d, W(0), W(4)) THEN HeaderFail(0)
    ELSE IF Bytes(d, W(0), W(4)) # SIG_8BPS THEN HeaderFail(4)
    ELSE LET p1 == W(4 + 22) IN
    IF ~CanRead(d, p1, W(4)) THEN HeaderFail(4)
    ELSE LET color_mode_len == from_be_bytes(Bytes(d, p1, W(4)))
             p2 == Add(Add(p1, W(4)), color_mode_len) IN
    IF ~CanRead(d, p2, W(4)) THEN HeaderFail(p1[2] + 4)
    ELSE LET resources_len == from_be_bytes(Bytes(d, p2, W(4))) IN
         [ok |-> TRUE, pos |-> Add(p2, W(4)),
          resources_end |-> Add(Add(p2, W(4)), resources_len),
          read |-> p2[2] + 4]

\* line 55: bytes to skip after the name's length byte
skip_len(name_len) == IF name_len % 2 = 0 THEN name_len + 1 ELSE name_len

\* line 90: the payload size rounded up to an even number, in u32. The sum
\* resource_size + 1 overflows for 0xFFFFFFFF: a build with overflow checks
\* panics there, a build without them wraps to 0.
padded_size(resource_size) ==
    IF resource_size[2] % 2 = 0 THEN {resource_size}
    ELSE IF resource_size = U32MAX THEN {Panicked, W(0)}
    ELSE {Add(resource_size, W(1))}

Outcome(kind, p, ret, read, al) ==
    [kind |-> kind, pos |-> p, ret |-> ret, read |-> read, alloc |-> al]

\* lines 89-98 with an absolute seek and no progress check
AfterSkip_SeekStart(position, loop_start, padded) ==
    IF padded = Panicked THEN Outcome("panic", position, None, position[2], W(0))
    ELSE Outcome("continue", padded, None, position[2], W(0))

\* lines 89-98: seek over the payload, then the progress check
AfterSkip(position, loop_start, padded) ==
    IF padded = Panicked THEN Outcome("panic", position, None, position[2], W(0))
    ELSE IF Le(Add(position, padded), loop_start)
         THEN Outcome("break", Add(position, padded), None, position[2], W(0))
         ELSE Outcome("continue", Add(position, padded), None, position[2], W(0))

\* lines 65-87 without the test resource_size < 28: the subtraction underflows
ThumbnailResource_NoSizeGuard(d, p, resource_size) ==
    IF ~CanRead(d, p, W(28)) THEN {Outcome("none", p, None, p[2], W(0))}
    ELSE LET format == from_be_bytes(Bytes(d, p, W(4)))
             q == Add(p, W(28)) IN
    IF format # W(1) THEN {}
    ELSE IF Lt(resource_size, W(28)) THEN {Outcome("panic", q, None, q[2], W(0))}
    ELSE LET jpeg_size == Sub28(resource_size) IN
    IF jpeg_size = W(0) THEN {Outcome("none", q, None, q[2], W(0))}
    ELSE IF ~CanRead(d, q, jpeg_size) THEN {Outcome("none", q, None, q[2], jpeg_size)}
    ELSE {Outcome("some", Add(q, jpeg_size), Some(Bytes(d, q, jpeg_size)),
                  q[2] + jpeg_size[2], jpeg_size)}

\* lines 65-87: a thumbnail resource; {} when the record falls through to the skip
ThumbnailResource(d, p, resource_size) ==
    IF ~CanRead(d, p, W(28)) THEN {Outcome("none", p, None, p[2], W(0))}
    ELSE LET format == from_be_bytes(Bytes(d, p, W(4)))
             q == Add(p, W(28)) IN
    IF format # W(1) THEN {}
    ELSE IF Lt(resource_size, W(28)) THEN {Outcome("none", q, None, q[2], W(0))}
    ELSE LET jpeg_size == Sub28(resource_size) IN
    IF jpeg_size = W(0) THEN {Outcome("none", q, None, q[2], W(0))}
    ELSE IF ~CanRead(d, q, jpeg_size) THEN {Outcome("none", q, None, q[2], jpeg_size)}
    ELSE {Outcome("some", Add(q, jpeg_size), Some(Bytes(d, q, jpeg_size)),
                  q[2] + jpeg_size[2], jpeg_size)}

\* lines 36-98: one iteration of the resource loop from position p; the set of
\* its possible outcomes
ScanRecord(d, p) ==
    IF ~CanRead(d, p, W(4)) THEN {Outcome("break", p, None, 0, W(0))}
    ELSE LET s == p[2] IN
    IF Bytes(d, p, W(4)) # SIG_8BIM THEN {Outcome("break", W(s + 4), None, s + 4, W(0))}
    ELSE IF ~CanRead(d, W(s + 4), W(2)) THEN {Outcome("none", W(s + 4), None, s + 4, W(0))}
    ELSE LET resource_id == from_be_bytes16(Bytes(d, W(s + 4), W(2))) IN
    IF ~CanRead(d, W(s + 6), W(1)) THEN {Outcome("none", W(s + 6), None, s + 6, W(0))}
    ELSE LET name_len == d[s + 7]
             p1 == W(s + 7 + skip_len(name_len)) IN
    IF ~CanRead(d, p1, W(4)) THEN {Outcome("none", p1, None, s + 7, W(0))}
    ELSE LET resource_size == from_be_bytes(Bytes(d, p1, W(4)))
             p2 == Add(p1, W(4))
             is_thumbnail == resource_id = 1036 \/ resource_id = 1033
             thumb == IF is_thumbnail THEN ThumbnailResource(d, p2, resource_size) ELSE {}
             p3 == IF is_thumbnail THEN Add(p2, W(28)) ELSE p2 IN
    IF thumb # {} THEN thumb
    ELSE {AfterSkip(p3, p, padded) : padded \in padded_size(resource_size)}

(* ---- the inputs: containers built from record templates, and their prefixes *)
Name(bytes) == <<Len(bytes)>> \o bytes \o (IF Len(bytes) % 2 = 0 THEN <<0>> ELSE <<>>)
Record(id, name, size, payload) ==
    SIG_8BIM \o U16(id) \o Name(name) \o U32(size) \o payload
ThumbHeader(format) == U32(W(format)) \o Zeros(24)

RecordKinds == <<
    Record(1036, <<>>, W(30), ThumbHeader(1) \o <<255, 216>>),  \* a JPEG preview
    Record(1033, <<>>, W(28), ThumbHeader(1)),                   \* empty preview
    Record(1036, <<>>, W(28), ThumbHeader(0)),                   \* raw, not JPEG
    Record(1005, <<65>>, W(3), <<1, 2, 3, 0>>),                  \* odd size, padded
    Record(1005, <<>>, U32MAX, <<>>),                            \* size 0xFFFFFFFF
    <<56, 66, 73, 88>>,                                          \* a bad signature
    Record(1036, <<>>, W(27), ThumbHeader(1)),                   \* size below 28
    Record(1036, <<>>, <<65535, 0>>, ThumbHeader(1) \o <<255>>), \* size beyond data
    Record(1006, <<65, 66>>, W(0), <<>>) >>                      \* empty payload

RECURSIVE Concat(_)
Concat(kinds) ==
    IF kinds = <<>> THEN <<>> ELSE RecordKinds[Head(kinds)] \o Concat(Tail(kinds))

RecordLists == UNION {[1 .. n -> 1 .. Len(RecordKinds)] : n \in 0 .. MaxRecords}

Container(sig, color_mode, resources_len, records) ==
    sig \o Zeros(22) \o U32(W(Len(color_mode))) \o color_mode
        \o U32(W(resources_len)) \o records

WellFormed(kinds) == Container(SIG_8BPS, <<>>, Len(Concat(kinds)), Concat(kinds))

Prefixes(d) == {SubSeq(d, 1, n) : n \in 0 .. Len(d)}

PsdInputs ==
    UNION {Prefixes(WellFormed(kinds)) : kinds \in RecordLists}
    \cup {Container(<<56, 66, 80, 88>>, <<>>, Len(Concat(kinds)), Concat(kinds)) :
            kinds \in RecordLists}
    \cup {Container(SIG_8BPS, <<7, 7>>, Len(Concat(kinds)), Concat(kinds)) :
            kinds \in RecordLists}
    \cup {Container(SIG_8BPS, <<>>, Len(Concat(kinds)) + 64, Concat(kinds)) :
            kinds \in RecordLists}
    \cup {Container(SIG_8BPS, <<>>, 0, Concat(kinds)) : kinds \in RecordLists}

PsdStart(d) ==
    /\ data = d
    /\ pos = W(0)
    /\ ppc = "start"
    /\ resources_end = W(0)
    /\ loop_start_pos = W(0)
    /\ result = None
    /\ iters = 0
    /\ maxRead = 0
    /\ alloc = W(0)

PsdInit == \E d \in PsdInputs : PsdStart(d)
PsdIdle == PsdStart(<<>>)

\* lines 10-31
PsdHeader ==
    /\ ppc = "start"
    /\ LET h == ParseHeader(data) IN
        /\ ppc' = IF h.ok THEN "loop" ELSE "done"
        /\ pos' = h.pos
        /\ resources_end' = h.resources_end
        /\ maxRead' = h.read
    /\ UNCHANGED <<data, loop_start_pos, result, iters, alloc, notPsd>>

\* line 34 false, line 101
PsdLoopExit ==
    /\ ppc = "loop"
    /\ ~Lt(pos, resources_end)
    /\ ppc' = "done"
    /\ result' = None
    /\ UNCHANGED <<data, pos, resources_end, loop_start_pos, iters, maxRead, alloc, notPsd>>

\* lines 34-99: one iteration
PsdRecord ==
    /\ ppc = "loop"
    /\ Lt(pos, resources_end)
    /\ \E o \in ScanRecord(data, pos) :
        /\ ppc' = CASE o.kind = "continue" -> "loop"
                    [] o.kind = "panic"    -> "panic"
                    [] OTHER               -> "done"
        /\ pos' = o.pos
        /\ result' = o.ret
        /\ maxRead' = Max(maxRead, o.read)
        /\ alloc' = IF Lt(alloc, o.alloc) THEN o.alloc ELSE alloc
    /\ loop_start_pos' = pos
    /\ iters' = iters + 1
    /\ UNCHANGED <<data, resources_end, notPsd>>

PsdNext == PsdHeader \/ PsdLoopExit \/ PsdRecord

PsdDone == ppc \in {"done", "panic"}

(***************************************************************************)
(* Cache key derivation. Strings are sequences of characters. md5 and the   *)
(* hex formatting are taken as injective: the key is identified with the    *)
(* string that is hashed.                                                   *)
(***************************************************************************)
MaxTime == 12       \* modified_time ranges over 0 .. MaxTime

Digits == <<"0", "1", "2", "3", "4", "5", "6", "7", "8", "9">>

\* Display of an unsigned integer ({} in format!)
RECURSIVE to_string(_)
to_string(n) ==
    IF n < 10 THEN <<Digits[n + 1]>>
    ELSE to_string(n \div 10) \o <<Digits[(n % 10) + 1]>>

\* lib.rs:402 with the render settings left out of the key
input_lib_NoSettings(file_path, modified_time, size, quality) ==
    file_path \o <<":">> \o to_string(modified_time)

\* lib.rs:402  format!("{}:{}:{}:{}", file_path, modified_time, THUMBNAIL_SIZE, JPEG_QUALITY)
input_lib(file_path, modified_time, size, quality) ==
    file_path \o <<":">> \o to_string(modified_time) \o <<":">> \o to_string(size)
        \o <<":">> \o to_string(quality)

\* thumbnail/mod.rs:36  format!("{}:{}:{}:png", file_path, modified_time, THUMBNAIL_SIZE)
input_mod(file_path, modified_time, size) ==
    file_path \o <<":">> \o to_string(modified_time) \o <<":">> \o to_string(size)
        \o <<":", "p", "n", "g">>

KeyPaths  == {<<"a">>, <<"a", ":", "1">>, <<"a", "1">>, <<"a", ":", "1", ":", "9">>}
KeyTimes  == {0, 1, 11, MaxTime}
KeySizes  == {480, 960, 96, 9}
KeyQuals  == {98, 8, 6, 60}
KeyRequests ==
    [file_path : KeyPaths, modified_time : KeyTimes, size : KeySizes, quality : KeyQuals]

NoKey == [lib |-> <<>>, mod |-> <<>>]

KeyStart(a, b) ==
    /\ reqA = a
    /\ reqB = b
    /\ keyA = NoKey
    /\ keyB = NoKey
    /\ kpc = "start"

\* two requests that agree on all but at most one field
KeyInit ==
    \E a \in KeyRequests, b \in KeyRequests :
        /\ Cardinality({f \in DOMAIN a : a[f] # b[f]}) <= 1
        /\ KeyStart(a, b)

KeyIdle == KeyStart([file_path |-> <<>>, modified_time |-> 0, size |-> 0, quality |-> 0],
                    [file_path |-> <<>>, modified_time |-> 0, size |-> 0, quality |-> 0])

DeriveBoth(r) ==
    [lib |-> input_lib(r.file_path, r.modified_time, r.size, r.quality),
     mod |-> input_mod(r.file_path, r.modified_time, r.size)]

\* both requests have their keys derived
DeriveKeys ==
    /\ kpc = "start"
    /\ keyA' = DeriveBoth(reqA)
    /\ keyB' = DeriveBoth(reqB)
    /\ kpc' = "done"
    /\ UNCHANGED <<reqA, reqB, notKey>>

KeyNext == DeriveKeys

(***************************************************************************)
(* generate_thumbnail: requests run as independent blocking tasks against   *)
(* one cache directory. A task's steps are its file system calls; fs::write *)
(* is File::create (truncate) followed by write_all, which may take more    *)
(* than one write call.                                                     *)
(***************************************************************************)
NumReqs    == 2     \* request tasks that run at the same time
ChunkCount == 2     \* write calls write_all needs for one rendition

THUMBNAIL_SIZE_MOD    == 480
THUMBNAIL_SIZE_LIB    == 960
JPEG_QUALITY          == 98
MEMORY_CACHE_MAX_SIZE == 20

Reqs == 1 .. NumReqs

\* the source files a caller may name, and what decoding each one gives
GoodPsd  == <<"a", ".", "P", "S", "D">>
BadPsd   == <<"b", ".", "p", "s", "d">>
TextFile == <<"c", ".", "t", "x", "t">>
SourcePaths == {GoodPsd, BadPsd, TextFile}
Removable   == {GoodPsd}        \* the files the user deletes while requests run
SourceTimes == {1, 2}           \* the modification times a caller passes
\* the (file_path, modified_time) pairs callers ask for
Calls == {<<GoodPsd, t>> : t \in SourceTimes} \cup {<<BadPsd, 1>>, <<TextFile, 1>>}
Decodes(path) == path = GoodPsd

\* str::to_lowercase on the characters that occur
LowerChar(c) ==
    CASE c = "P" -> "p" [] c = "S" -> "s" [] c = "D" -> "d" [] OTHER -> c
to_lowercase(str) == [i \in 1 .. Len(str) |-> LowerChar(str[i])]

\* what follows the last '.' of a name that holds one
RECURSIVE after_last_dot(_)
after_last_dot(name) ==
    IF "." \in {name[i] : i \in 2 .. Len(name)} THEN after_last_dot(Tail(name))
    ELSE IF Head(name) = "." THEN Tail(name) ELSE name

\* Path::extension of a file name: what follows the last '.'; none ("" after
\* unwrap_or) when the name has no '.' or only begins with one
extension(path) ==
    IF "." \in {path[i] : i \in 2 .. Len(path)} THEN after_last_dot(path) ELSE <<>>

\* the rendition create_thumbnail makes of a source: ChunkCount pieces
Rendition(path, modified_time) == [i \in 1 .. ChunkCount |-> <<path, modified_time, i>>]
Hole == <<>>

\* thumbnail/mod.rs:36-37, lib.rs:402-403
cache_key(v, file_path, modified_time) ==
    IF v = "mod" THEN input_mod(file_path, modified_time, THUMBNAIL_SIZE_MOD)
    ELSE input_lib(file_path, modified_time, THUMBNAIL_SIZE_LIB, JPEG_QUALITY)

\* thumbnail/mod.rs:47, lib.rs:406
cached_path(v, key) ==
    key \o (IF v = "mod" THEN <<".", "p", "n", "g">> ELSE <<".", "j", "p", "g">>)

\* ThumbnailCache::new aborting when the directory cannot be created
ThumbnailCache_new_Abort(created, searchable) ==
    [dir_ok |-> created, perm_ok |-> searchable, files |-> [f \in {} |-> <<>>],
     managed |-> created]

\* cache/disk.rs:10-22 ThumbnailCache::new: a failure of create_dir_all is
\* logged and the object is returned all the same. dir_ok: the directory
\* exists; perm_ok: the process may search it; managed: the object was handed
\* to the application, which runs
ThumbnailCache_new(created, searchable) ==
    [dir_ok |-> created, perm_ok |-> searchable, files |-> [f \in {} |-> <<>>],
     managed |-> TRUE]

\* the io::Result of the probe's system call on the cache file: metadata for
\* cached_path.exists() (thumbnail/mod.rs:51), open and read for fs::read
\* (lib.rs:407)
probe_io(v, d, file) ==
    IF ~d.dir_ok THEN "NotFound"
    ELSE IF ~d.perm_ok THEN "PermissionDenied"
    ELSE IF file \in DOMAIN d.files THEN "Ok" ELSE "NotFound"

\* the cache check left out
cache_hit_Never(v, io) == FALSE

\* thumbnail/mod.rs:51 cached_path.exists() is true only if metadata is Ok;
\* lib.rs:408 the Ok(data) arm
cache_hit(v, io) == io = "Ok"

\* a read error other than NotFound returned to the caller
probe_error_Propagate(v, io) ==
    IF io \in {"Ok", "NotFound"} THEN "" ELSE "err:cache_read"

\* the error the probe returns to the caller: none. thumbnail/mod.rs:51
\* exists() turns every error into false; lib.rs:412-418 goes on to generate on
\* NotFound and, after logging, on any other error
probe_error(v, io) == ""

\* the result of fs::write ignored
write_status_IgnoreErr(ok) == "generated"

\* thumbnail/mod.rs:73-79, lib.rs:435-439: fs::write(..).map_err(..)? returns
\* the error, otherwise the request returns the thumbnail
write_status(ok) == IF ok THEN "generated" ELSE "err:write"

\* every extension taken for a raster
generate_NoExtCheck(path, src) ==
    IF ~src.exists THEN [ok |-> FALSE, err |-> "read", trace |-> <<"source_read">>]
    ELSE IF ~src.decodes
         THEN [ok |-> FALSE, err |-> "decode", trace |-> <<"source_read">>]
         ELSE [ok |-> TRUE, err |-> "", trace |-> <<"source_read", "render">>]

\* thumbnail/mod.rs:60-70, lib.rs:422-432: the match on the extension, then
\* generate_psd_thumbnail / generate_image_thumbnail on the source file
generate(path, src) ==
    LET ext == to_lowercase(extension(path)) IN
    IF ext \notin {<<"p","s","d">>, <<"t","i","f">>, <<"t","i","f","f">>,
                   <<"j","p","g">>, <<"j","p","e","g">>, <<"p","n","g">>}
    THEN [ok |-> FALSE, err |-> "unsupported", trace |-> <<>>]
    ELSE IF ~src.exists THEN [ok |-> FALSE, err |-> "read", trace |-> <<"source_read">>]
    ELSE IF ~src.decodes
         THEN [ok |-> FALSE, err |-> "decode", trace |-> <<"source_read">>]
         ELSE [ok |-> TRUE, err |-> "", trace |-> <<"source_read", "render">>]

\* the file after a write call puts `piece` at offset `off` (0-based)
WriteAt(content, off, piece) ==
    [i \in 1 .. Max(Len(content), off + 1) |->
        IF i = off + 1 THEN piece
        ELSE IF i <= Len(content) THEN content[i] ELSE Hole]

\* a successful return that also populates the memory cache
app_state_Populated(app, key, bytes) == insert(app, key, bytes)

\* thumbnail/mod.rs:31: the state is taken as _app_state and is not used, so a
\* return leaves it as it is; lib.rs takes no state at all
app_state_after(app, key, bytes) == app

\* the existence check made, its answer not acted on
after_exists_Ignored(exists) == "probe"

\* thumbnail/mod.rs:43-45, lib.rs:397-399: a missing source returns at once
after_exists(exists) == IF exists THEN "probe" ELSE "done"

\* a task that holds back while another request is in flight
may_run_WaitForOthers(r, rq) == \A o \in DOMAIN rq \ {r} : rq[o].pc \in {"idle", "done"}

\* thumbnail/mod.rs:40-82, lib.rs:394-442: each request is its own blocking
\* task; the closure owns cache_dir and the path, takes no lock and awaits
\* nothing, so its steps never depend on the other requests
may_run(r, rq) == TRUE

\* the disk check made, its answer not acted on
after_probe_IgnoreHit(hit) == "generate"

\* thumbnail/mod.rs:51-57, lib.rs:407-419: a hit returns, a miss goes on
after_probe(hit) == IF hit THEN "done" ELSE "generate"

\* the thumbnail written whether or not it could be generated
after_generate_IgnoreErr(ok) == "create"

\* thumbnail/mod.rs:66-70, lib.rs:428-432: `?` returns the error
after_generate(ok) == IF ok THEN "create" ELSE "done"

IdleReq ==
    [pc |-> "idle", path |-> <<>>, time |-> 0, key |-> <<>>, status |-> "",
     out |-> None, off |-> 0, trace |-> <<>>, seen |-> None, fresh |-> None,
     genfail |-> FALSE, io |-> "", existed |-> FALSE]

ThInit(v) ==
    /\ variant = v
    /\ source = [p \in SourcePaths |-> [exists |-> TRUE, decodes |-> Decodes(p)]]
    /\ \E st \in {<<TRUE, TRUE>>, <<TRUE, FALSE>>, <<FALSE, TRUE>>} :
          disk = ThumbnailCache_new(st[1], st[2])
    /\ app_mc = new(MEMORY_CACHE_MAX_SIZE)
    /\ req = [r \in Reqs |-> IdleReq]
    /\ stable = [k \in {} |-> <<>>]

ThIdle ==
    /\ variant = "none"
    /\ source = [p \in {} |-> 0]
    /\ disk = ThumbnailCache_new(FALSE, FALSE)
    /\ app_mc = new(0)
    /\ req = [r \in {} |-> IdleReq]
    /\ stable = [k \in {} |-> <<>>]

With(rec, op) == [rec EXCEPT !.trace = Append(rec.trace, op)]

\* the renditions still on disk as a "generated" return left them
Unstable(key) == [k \in DOMAIN stable \ {key} |-> stable[k]]

\* thumbnail/mod.rs:33-45, lib.rs:391-403: a request is dispatched; the task
\* derives the key and checks that the source exists
Start(r, path, time) ==
    /\ req[r].pc = "idle"
    /\ disk.managed
    /\ LET key == cache_key(variant, path, time)
           next == after_exists(source[path].exists)
           me  == With([req[r] EXCEPT !.path = path, !.time = time, !.key = key,
                                      !.existed = source[path].exists,
                                      !.pc = next,
                                      !.fresh = IF key \in DOMAIN stable
                                                THEN Some(stable[key]) ELSE None],
                       "source_exists") IN
       req' = [req EXCEPT ![r] =
                 IF next = "done" THEN [me EXCEPT !.status = "err:notfound"] ELSE me]
    /\ UNCHANGED <<variant, source, disk, app_mc, stable, notTh>>

\* thumbnail/mod.rs:47-57, lib.rs:405-419: the disk cache check. lib.rs returns
\* the bytes it read, thumbnail/mod.rs the key, the path and "cached"
Probe(r) ==
    /\ req[r].pc = "probe"
    /\ may_run(r, req)
    /\ LET file == cached_path(variant, req[r].key)
           io   == probe_io(variant, disk, file)
           hit  == cache_hit(variant, io)
           err  == probe_error(variant, io)
           next == IF err # "" THEN "done" ELSE after_probe(hit)
           me   == With([req[r] EXCEPT !.fresh = IF req[r].key \in DOMAIN stable
                                                 THEN @ ELSE None,
                                       !.seen = IF hit THEN Some(disk.files[file])
                                                ELSE None,
                                       !.io = io,
                                       !.pc = next],
                        "disk_probe")
           out  == IF variant = "mod"
                   THEN [cache_key |-> me.key, cache_path |-> file]
                   ELSE disk.files[file] IN
        /\ req' = [req EXCEPT ![r] =
                     IF err # "" THEN [me EXCEPT !.status = err]
                     ELSE IF next = "done"
                     THEN [me EXCEPT !.status = "cached", !.out = Some(out)]
                     ELSE me]
        /\ app_mc' = IF err = "" /\ next = "done"
                     THEN app_state_after(app_mc, me.key, out)
                     ELSE app_mc
    /\ UNCHANGED <<variant, source, disk, stable, notTh>>

\* thumbnail/mod.rs:59-70, lib.rs:421-432: decode and render
Generate(r) ==
    /\ req[r].pc = "generate"
    /\ may_run(r, req)
    /\ LET g    == generate(req[r].path, source[req[r].path])
           next == after_generate(g.ok)
           me   == [req[r] EXCEPT !.trace = @ \o g.trace, !.genfail = ~g.ok,
                                  !.pc = next] IN
       req' = [req EXCEPT ![r] =
                 IF next = "done" THEN [me EXCEPT !.status = "err:" \o g.err]
                 ELSE me]
    /\ UNCHANGED <<variant, source, disk, app_mc, stable, notTh>>

\* thumbnail/mod.rs:73, lib.rs:435: fs::write opens the file, truncating it
Create(r) ==
    /\ req[r].pc = "create"
    /\ may_run(r, req)
    /\ LET file == cached_path(variant, req[r].key)
           me   == With(req[r], "disk_create") IN
       IF disk.dir_ok /\ disk.perm_ok
       THEN /\ disk' = [disk EXCEPT !.files =
                            [f \in DOMAIN @ \cup {file} |-> IF f = file THEN <<>> ELSE @[f]]]
            /\ req' = [req EXCEPT ![r] = [me EXCEPT !.pc = "write", !.off = 0]]
            /\ stable' = Unstable(req[r].key)
       ELSE /\ req' = [req EXCEPT ![r] =
                            [me EXCEPT !.pc = "done", !.status = write_status(FALSE)]]
            /\ UNCHANGED <<disk, stable>>
    /\ UNCHANGED <<variant, source, app_mc, notTh>>

\* thumbnail/mod.rs:73-79, lib.rs:435-439: one write call of write_all; after
\* the last one the request returns
Write(r) ==
    /\ req[r].pc = "write"
    /\ may_run(r, req)
    /\ LET file  == cached_path(variant, req[r].key)
           bytes == Rendition(req[r].path, req[r].time)
           off   == req[r].off
           me    == With([req[r] EXCEPT !.off = off + 1], "disk_write")
           last  == off + 1 = ChunkCount
           out   == IF variant = "mod"
                    THEN [cache_key |-> me.key, cache_path |-> file]
                    ELSE bytes IN
        /\ disk' = [disk EXCEPT !.files[file] = WriteAt(@, off, bytes[off + 1])]
        /\ req' = [req EXCEPT ![r] =
                     IF last THEN [me EXCEPT !.pc = "done", !.status = write_status(TRUE),
                                             !.out = Some(out)]
                     ELSE me]
        /\ stable' = IF last /\ source[me.path].exists
                     THEN [k \in DOMAIN stable \cup {me.key} |->
                              IF k = me.key THEN out ELSE stable[k]]
                     ELSE Unstable(me.key)
        /\ app_mc' = IF last THEN app_state_after(app_mc, me.key, bytes) ELSE app_mc
    /\ UNCHANGED <<variant, source, notTh>>

\* the caller has the result; the task's slot is free for the next request
Retire(r) ==
    /\ req[r].pc = "done"
    /\ req' = [req EXCEPT ![r] = IdleReq]
    /\ UNCHANGED <<variant, source, disk, app_mc, stable, notTh>>

\* the user deletes a source file
RemoveSource(path) ==
    /\ source[path].exists
    /\ source' = [source EXCEPT ![path].exists = FALSE]
    /\ stable' = [k \in {k \in DOMAIN stable :
                            \A t \in SourceTimes : k # cache_key(variant, path, t)}
                    |-> stable[k]]
    /\ UNCHANGED <<variant, disk, app_mc, req, notTh>>

ThNext ==
    \/ \E r \in Reqs, c \in Calls : Start(r, c[1], c[2])
    \/ \E r \in Reqs : Probe(r)
    \/ \E r \in Reqs : Generate(r)
    \/ \E r \in Reqs : Create(r)
    \/ \E r \in Reqs : Write(r)
    \/ \E r \in Reqs : Retire(r)
    \/ \E path \in Removable : RemoveSource(path)

(***************************************************************************)
(* validate_dimensions (image_utils.rs; lib.rs holds the same function).    *)
(* A u32 is the pair <<high 16 bits, low 16 bits>>, as in the extractor.    *)
(***************************************************************************)
MAX_IMAGE_DIMENSION == 65535
MAX_PIXEL_COUNT     == W(100000000)

\* (width as u64) * (height as u64) for operands that passed the single
\* dimension test (below 2^16), as a pair; the product is below 2^32
mul_u64(a, b) ==
    LET p1     == a * (b \div 256)
        p0     == a * (b % 256)
        lo_sum == (p1 % 256) * 256 + p0
    IN  <<(p1 \div 256) + (lo_sum \div 65536), lo_sum % 65536>>

\* validate_dimensions with the pixel count test left out
validate_dimensions_NoPixelCap(width, height) ==
    IF width = W(0) \/ height = W(0) THEN "Err:zero"
    ELSE IF Lt(W(MAX_IMAGE_DIMENSION), width) \/ Lt(W(MAX_IMAGE_DIMENSION), height)
         THEN "Err:dimension"
         ELSE "Ok"

\* image_utils.rs:6-24
validate_dimensions(width, height) ==
    IF width = W(0) \/ height = W(0) THEN "Err:zero"
    ELSE IF Lt(W(MAX_IMAGE_DIMENSION), width) \/ Lt(W(MAX_IMAGE_DIMENSION), height)
         THEN "Err:dimension"
         ELSE LET pixel_count == mul_u64(width[2], height[2]) IN
              IF Lt(MAX_PIXEL_COUNT, pixel_count) THEN "Err:pixels" ELSE "Ok"

\* the widths and heights validate_dimensions is called with
ValDims ==
    {W(n) : n \in {0, 1, 10, 100, 1080, 1525, 1526, 1920, 10000, 10001, 20000,
                   65535, 65536, 70000}} \cup {U32MAX}

ValInit ==
    /\ vwidth \in ValDims
    /\ vheight \in ValDims
    /\ vpc = "call"
    /\ vres = ""

ValIdle ==
    /\ vwidth = W(0)
    /\ vheight = W(0)
    /\ vpc = "idle"
    /\ vres = ""

Validate ==
    /\ vpc = "call"
    /\ vres' = validate_dimensions(vwidth, vheight)
    /\ vpc' = "done"
    /\ UNCHANGED <<vwidth, vheight, notVal>>

ValNext == Validate

(***************************************************************************)
(* generate_psd_thumbnail and generate_image_thumbnail: thumbnail/psd.rs    *)
(* and thumbnail/image.rs ("mod"), and the copies in lib.rs ("lib").        *)
(***************************************************************************)
THUMBNAIL_SIZE(v) == IF v = "mod" THEN THUMBNAIL_SIZE_MOD ELSE THUMBNAIL_SIZE_LIB

Dim(w, h)  == [is |-> "image", width |-> W(w), height |-> W(h)]
\* a read or a decode that gave no raster: "none", "undecodable", "error"
NoDim(why) == [is |-> why, width |-> W(0), height |-> W(0)]
NoImg == [from |-> "none", width |-> W(0), height |-> W(0)]

\* what extract_psd_embedded_thumbnail and the JPEG decoder give for a file:
\* no preview, bytes that do not decode, or a preview of some size
Previews ==
    {NoDim("none"), NoDim("undecodable")} \cup
    {Dim(100, 100), Dim(479, 479), Dim(480, 100), Dim(100, 480), Dim(959, 959),
     Dim(960, 100), Dim(100, 960), Dim(20000, 20000)}
\* what psd::Psd::from_bytes gives: an error, or the document's size
Composites ==
    {NoDim("error"), Dim(0, 100), Dim(1920, 1080), Dim(70000, 10), Dim(20000, 20000)}
\* what image::open gives: an error, or the raster's size
Rasters ==
    {NoDim("error"), Dim(100, 100), Dim(1920, 1080), Dim(70000, 10), Dim(20000, 20000)}

GenSources ==
    {[kind |-> "psd", readable |-> TRUE, preview |-> p, composite |-> c,
      raster |-> NoDim("error")] : p \in Previews, c \in Composites}
    \cup {[kind |-> "psd", readable |-> FALSE, preview |-> NoDim("none"),
           composite |-> NoDim("error"), raster |-> NoDim("error")]}
    \cup {[kind |-> "image", readable |-> TRUE, preview |-> NoDim("none"),
           composite |-> NoDim("error"), raster |-> r] : r \in Rasters}

\* thumbnail/psd.rs:110-120: the preview is used only if it decodes and its
\* width or its height reaches THUMBNAIL_SIZE; lib.rs:289-294: a preview is
\* decoded with `?` and used as it is
preview_path(v, preview) ==
    IF preview.is = "none" THEN "composite"
    ELSE IF v = "mod"
         THEN IF preview.is = "undecodable" THEN "composite"
              ELSE IF Le(W(THUMBNAIL_SIZE(v)), preview.width)
                      \/ Le(W(THUMBNAIL_SIZE(v)), preview.height)
                   THEN "render" ELSE "composite"
         ELSE IF preview.is = "undecodable" THEN "Err:preview" ELSE "render"

\* thumbnail/psd.rs:130, lib.rs:304: validate_dimensions(width, height)?
composite_check(width, height) == validate_dimensions(width, height)

GenInit ==
    /\ gv \in {"mod", "lib"}
    /\ gsrc \in GenSources
    /\ gpc = "start"
    /\ gimg = NoImg
    /\ gtrace = <<>>
    /\ gres = ""

GenIdle ==
    /\ gv = "none"
    /\ gsrc = [kind |-> "none", readable |-> FALSE, preview |-> NoDim("none"),
               composite |-> NoDim("error"), raster |-> NoDim("error")]
    /\ gpc = "idle"
    /\ gimg = NoImg
    /\ gtrace = <<>>
    /\ gres = ""

\* thumbnail/psd.rs:107 fs::read(path)?
GenReadPsd ==
    /\ gpc = "start" /\ gsrc.kind = "psd"
    /\ gtrace' = Append(gtrace, "fs_read")
    /\ IF gsrc.readable THEN gpc' = "extract" /\ gres' = gres
       ELSE gpc' = "done" /\ gres' = "Err:read"
    /\ UNCHANGED <<gv, gsrc, gimg, notGen>>

\* thumbnail/psd.rs:110-120: the embedded preview, if there is one
GenPreview ==
    /\ gpc = "extract"
    /\ LET next == preview_path(gv, gsrc.preview) IN
        /\ gtrace' = gtrace \o <<"extract">>
                     \o (IF gsrc.preview.is = "none" THEN <<>> ELSE <<"decode_preview">>)
        /\ gimg' = IF next = "render"
                   THEN [from |-> "embedded", width |-> gsrc.preview.width,
                         height |-> gsrc.preview.height]
                   ELSE gimg
        /\ IF next \in {"render", "composite"} THEN gpc' = next /\ gres' = gres
           ELSE gpc' = "done" /\ gres' = next
    /\ UNCHANGED <<gv, gsrc, notGen>>

\* thumbnail/psd.rs:123-137: the full composite: parse, validate, rgba
GenComposite ==
    /\ gpc = "composite"
    /\ IF gsrc.composite.is = "error"
       THEN /\ gtrace' = Append(gtrace, "psd_parse")
            /\ gpc' = "done" /\ gres' = "Err:parse"
            /\ gimg' = gimg
       ELSE LET c == gsrc.composite
                checked == composite_check(c.width, c.height) IN
            /\ gtrace' = gtrace \o <<"psd_parse", "validate">>
                         \o (IF checked = "Ok" THEN <<"rgba">> ELSE <<>>)
            /\ IF checked = "Ok"
               THEN /\ gpc' = "render" /\ gres' = gres
                    /\ gimg' = [from |-> "composite", width |-> c.width,
                                height |-> c.height]
               ELSE gpc' = "done" /\ gres' = checked /\ gimg' = gimg
    /\ UNCHANGED <<gv, gsrc, notGen>>

\* thumbnail/image.rs:6-7 image::open(path)?
GenOpenImage ==
    /\ gpc = "start" /\ gsrc.kind = "image"
    /\ gtrace' = Append(gtrace, "image_open")
    /\ IF gsrc.raster.is = "error"
       THEN gpc' = "done" /\ gres' = "Err:open" /\ gimg' = gimg
       ELSE /\ gpc' = "render" /\ gres' = gres
            /\ gimg' = [from |-> "direct", width |-> gsrc.raster.width,
                        height |-> gsrc.raster.height]
    /\ UNCHANGED <<gv, gsrc, notGen>>

\* image_utils.rs:38-55 create_thumbnail(img)
GenRender ==
    /\ gpc = "render"
    /\ gtrace' = Append(gtrace, "create_thumbnail")
    /\ gpc' = "done"
    /\ gres' = "Ok"
    /\ UNCHANGED <<gv, gsrc, gimg, notGen>>

GenNext ==
    \/ GenReadPsd
    \/ GenPreview
    \/ GenComposite
    \/ GenOpenImage
    \/ GenRender

(***************************************************************************)
(* add_recent_file (commands/recent.rs)                                    *)
(***************************************************************************)
MaxAdds    == 3      \* calls made
ExtraPaths == 2      \* paths beyond the ten the list can hold
RECENT_MAX == 10     \* recent.truncate(10)

RecentPaths == 1 .. RECENT_MAX + ExtraPaths

\* types.rs RecentFile, without the display name that travels with the path;
\* opened_at is the time of the call, 0 for what was stored before
RecentFile(path, opened_at) == [path |-> path, opened_at |-> opened_at]

Stored(list) == [state |-> "json", list |-> list]
Absent       == [state |-> "absent", list |-> <<>>]
Unparsable   == [state |-> "corrupt", list |-> <<>>]

\* lines 40-45: a missing file and a file serde_json cannot parse
\* (unwrap_or_default) both give the empty list
load(file) == IF file.state = "json" THEN file.list ELSE <<>>

\* Vec::retain(|r| r.path != path)
RECURSIVE retain(_, _)
retain(recent, path) ==
    IF recent = <<>> THEN <<>>
    ELSE IF Head(recent).path # path
         THEN <<Head(recent)>> \o retain(Tail(recent), path)
         ELSE retain(Tail(recent), path)

\* Vec::truncate(n)
truncate(recent, n) == IF Len(recent) > n THEN SubSeq(recent, 1, n) ELSE recent

\* the entry put in front without removing the path's old entry
add_recent_file_NoRetain(recent, path, now) ==
    truncate(<<RecentFile(path, now)>> \o recent, RECENT_MAX)

\* lines 47-58: retain, insert(0, ..), truncate(10)
add_recent_file(recent, path, now) ==
    truncate(<<RecentFile(path, now)>> \o retain(recent, path), RECENT_MAX)

\* the stored lists a run starts from: none, an unparsable file, and lists of
\* distinct paths up to and beyond ten entries
RecentStart ==
    {Absent, Unparsable}
    \cup {Stored([i \in 1 .. n |-> RecentFile(n + 1 - i, 0)]) :
            n \in {1, RECENT_MAX - 1, RECENT_MAX, RECENT_MAX + ExtraPaths}}

RecInit ==
    /\ recent_file \in RecentStart
    /\ rcalls = 0
    /\ radded = 0
    /\ rlast = ""
    /\ rbefore = <<>>

RecIdle ==
    /\ recent_file = Absent
    /\ rcalls = 0
    /\ radded = 0
    /\ rlast = ""
    /\ rbefore = <<>>

\* lines 36-67, every step succeeding: the list is read, changed and written
AddRecentFile(path) ==
    /\ rcalls < MaxAdds
    /\ recent_file' = Stored(add_recent_file(load(recent_file), path, rcalls + 1))
    /\ rcalls' = rcalls + 1
    /\ radded' = path
    /\ rlast' = "Ok"
    /\ rbefore' = load(recent_file)
    /\ UNCHANGED notRec

\* lines 37, 41, 61, 64, 65: a step fails and the call returns Err. The file
\* is as it was, except that a failing fs::write (65) may already have
\* truncated it
AddRecentFileFails ==
    /\ rcalls < MaxAdds
    /\ recent_file' \in {recent_file} \cup
                        (IF recent_file.state = "absent" THEN {} ELSE {Unparsable})
    /\ rcalls' = rcalls + 1
    /\ rlast' = "Err"
    /\ UNCHANGED <<radded, rbefore, notRec>>

RecNext ==
    \/ \E path \in RecentPaths : AddRecentFile(path)
    \/ AddRecentFileFails

(***************************************************************************)
(* The result-polling loop of run_photoshop_tiff_convert (commands/tiff.rs) *)
(***************************************************************************)
TiffFiles == 2       \* files the editor was given; N of its progress "X/N"

poll_interval_ms      == 500
initial_timeout_secs  == 600
final_timeout_secs    == 120

\* a limit of n polls; u64::MAX polls of 500 ms each are some 2.9 * 10^11
\* years, which is no limit
Limit(n)  == <<n>>
Unlimited == <<>>

\* the texts the editor may leave in the progress file
Ratio(current, total) == to_string(current) \o <<"/">> \o to_string(total)
ProgressTexts ==
    {<<>>, <<"?">>} \cup {Ratio(x, TiffFiles) : x \in 1 .. TiffFiles}

\* str::parse::<u64>: Some(value) for a non-empty string of digits
RECURSIVE digits_value(_)
digits_value(chars) ==
    IF chars = <<>> THEN 0
    ELSE digits_value(SubSeq(chars, 1, Len(chars) - 1)) * 10
         + (CHOOSE d \in 0 .. 9 : Digits[d + 1] = chars[Len(chars)])
parse_u64(chars) ==
    IF chars # <<>> /\ \A i \in 1 .. Len(chars) : \E d \in 1 .. 10 : Digits[d] = chars[i]
    THEN Some(digits_value(chars)) ELSE None

\* str::split_once('/')
split_once(chars) ==
    IF \E i \in 1 .. Len(chars) : chars[i] = "/"
    THEN LET i == CHOOSE i \in 1 .. Len(chars) :
                      chars[i] = "/" /\ \A j \in 1 .. i - 1 : chars[j] # "/" IN
         Some(<<SubSeq(chars, 1, i - 1), SubSeq(chars, i + 1, Len(chars))>>)
    ELSE None

\* lines 178-182: the new value of all_done after a progress text was taken
parse_progress(trimmed, done) ==
    LET parts == split_once(trimmed) IN
    IF parts = None THEN done
    ELSE LET c == parse_u64(parts[1][1])
             t == parse_u64(parts[1][2]) IN
         IF c # None /\ t # None THEN c[1] >= t[1] /\ t[1] > 0 ELSE done

\* the loop giving up after the initial limit whatever was reported
timeout_polls_Always(done, last) ==
    IF done THEN Limit((final_timeout_secs * 1000) \div poll_interval_ms)
    ELSE Limit((initial_timeout_secs * 1000) \div poll_interval_ms)

\* lines 189-195
timeout_polls(done, last) ==
    IF done THEN Limit((final_timeout_secs * 1000) \div poll_interval_ms)
    ELSE IF last = <<>> THEN Limit((initial_timeout_secs * 1000) \div poll_interval_ms)
    ELSE Unlimited

\* line 197: polls_since_progress >= timeout_polls
timed_out(polls, limit) == limit # Unlimited /\ polls >= limit[1]

\* line 208: a line is logged every 60 polls
heartbeat_polls == 60

\* Above both finite limits the loop looks at the count modulo 60 only (line
\* 208), so the counts above PollHorizon are folded onto the 60 below it
PollHorizon == (initial_timeout_secs * 1000) \div poll_interval_ms + heartbeat_polls
fold(polls) == IF polls > PollHorizon THEN polls - heartbeat_polls ELSE polls

\* lines 161-167: the result file exists, can be read, starts with '{' and
\* contains "results"
output_ready(file) == file = "ready"

PollInit ==
    /\ tpc = "polling"
    /\ output_file = "absent"            \* removed before the editor starts
    /\ progress_file = None              \* line 152
    /\ last_progress = <<>>
    /\ polls_since_progress = 0
    /\ all_done = FALSE

PollIdle ==
    /\ tpc = "idle"
    /\ output_file = "absent"
    /\ progress_file = None
    /\ last_progress = <<>>
    /\ polls_since_progress = 0
    /\ all_done = FALSE

\* lines 159-206: one iteration of the loop
Poll ==
    /\ tpc = "polling"
    /\ IF output_ready(output_file)
       THEN /\ tpc' = "exited"
            /\ UNCHANGED <<last_progress, polls_since_progress, all_done>>
       ELSE LET fresh == /\ progress_file # None
                         /\ progress_file[1] # <<>>
                         /\ progress_file[1] # last_progress
                last  == IF fresh THEN progress_file[1] ELSE last_progress
                done  == IF fresh THEN parse_progress(progress_file[1], all_done)
                         ELSE all_done
                polls == fold((IF fresh THEN 0 ELSE polls_since_progress) + 1) IN
            /\ last_progress' = last
            /\ all_done' = done
            /\ polls_since_progress' = polls
            /\ tpc' = IF timed_out(polls, timeout_polls(done, last))
                      THEN "exited" ELSE "polling"
    /\ UNCHANGED <<output_file, progress_file, notPoll>>

\* the editor's script writes its progress file
EditorWritesProgress(text) ==
    /\ tpc = "polling"
    /\ progress_file # Some(text)
    /\ progress_file' = Some(text)
    /\ UNCHANGED <<tpc, output_file, last_progress, polls_since_progress, all_done, notPoll>>

\* the editor's script writes its result file, in part or whole
EditorWritesResult(content) ==
    /\ tpc = "polling"
    /\ output_file # content
    /\ output_file' = content
    /\ UNCHANGED <<tpc, progress_file, last_progress, polls_since_progress, all_done, notPoll>>

EditorStep ==
    \/ \E text \in ProgressTexts : EditorWritesProgress(text)
    \/ \E content \in {"partial", "ready"} : EditorWritesResult(content)

PollNext == Poll \/ EditorStep

(***************************************************************************)
(* export_pages (commands/export.rs): the size of blank pages              *)
(***************************************************************************)
MaxPages == 3

\* what get_image_dimensions gives for a page's source (lines 9-30): the
\* size, or an error for a file that cannot be decoded or is too large
SizeA == Dim(100, 200)
SizeB == Dim(300, 400)
A5_350DPI == Dim(1654, 2339)        \* line 131

\* an ExportPage: its page_type, whether source_path names a file that is
\* there when export_pages is called, and the dimensions of that file
FilePage(there, dims) == [page_type |-> "file", there |-> there, dims |-> dims]
BlankPage == [page_type |-> "blank", there |-> FALSE, dims |-> NoDim("none")]
PageKinds ==
    {BlankPage, FilePage(FALSE, NoDim("none")), FilePage(TRUE, NoDim("error")),
     FilePage(TRUE, SizeA), FilePage(TRUE, SizeB)}
PageLists == UNION {[1 .. n -> PageKinds] : n \in 0 .. MaxPages}

\* Option<usize>: the index found by a scan that stops at the first page whose
\* source exists
FirstExisting(exists, candidates) ==
    IF \E j \in candidates : exists[j]
    THEN Some(CHOOSE j \in candidates :
                exists[j] /\ \A k \in candidates : exists[k] => j <= k)
    ELSE None
LastExisting(exists, candidates) ==
    IF \E j \in candidates : exists[j]
    THEN Some(CHOOSE j \in candidates :
                exists[j] /\ \A k \in candidates : exists[k] => j >= k)
    ELSE None

\* lines 106-131: the size of the first page whose source exists, else A5
reference_size(pgs, exists) ==
    LET first == FirstExisting(exists, 1 .. Len(pgs)) IN
    IF first # None /\ pgs[first[1]].dims.is = "image"
    THEN pgs[first[1]].dims ELSE A5_350DPI

\* lines 184-225: the size of the blank page at index i (1-based here)
blank_page_size(pgs, exists, i, default) ==
    LET prev  == LastExisting(exists, 1 .. i - 1)
        size  == IF prev # None /\ pgs[prev[1]].dims.is = "image"
                 THEN pgs[prev[1]].dims ELSE default
        next  == FirstExisting(exists, i + 1 .. Len(pgs)) IN
    IF size = default
    THEN IF next # None /\ pgs[next[1]].dims.is = "image"
         THEN pgs[next[1]].dims ELSE size
    ELSE size

ExpStart(pgs, move) ==
    /\ pages = pgs
    /\ src_exists = [j \in 1 .. Len(pgs) |-> pgs[j].there]
    /\ should_move = move
    /\ xpc = "reference"
    /\ xi = 0
    /\ default_size = A5_350DPI
    /\ blank_size = [j \in {} |-> A5_350DPI]

ExpInit == \E pgs \in PageLists, move \in BOOLEAN : ExpStart(pgs, move)
ExpIdle == ExpStart(<<>>, FALSE) /\ xpc = "reference"

\* lines 105-131
ExportReference ==
    /\ xpc = "reference"
    /\ pages # <<>>
    /\ default_size' = reference_size(pages, src_exists)
    /\ xpc' = "pages"
    /\ UNCHANGED <<pages, src_exists, should_move, xi, blank_size, notExp>>

\* lines 139-181 without JPEG conversion: a page with a source is copied, or
\* moved away when move_files is set; a page without one is passed over
ExportFilePage ==
    /\ xpc = "pages"
    /\ xi < Len(pages)
    /\ pages[xi + 1].page_type = "file"
    /\ src_exists' = IF src_exists[xi + 1] /\ should_move
                     THEN [src_exists EXCEPT ![xi + 1] = FALSE] ELSE src_exists
    /\ xi' = xi + 1
    /\ UNCHANGED <<pages, should_move, xpc, default_size, blank_size, notExp>>

\* lines 182-241
ExportBlankPage ==
    /\ xpc = "pages"
    /\ xi < Len(pages)
    /\ pages[xi + 1].page_type = "blank"
    /\ blank_size' = [j \in DOMAIN blank_size \cup {xi + 1} |->
                        IF j = xi + 1
                        THEN blank_page_size(pages, src_exists, xi + 1, default_size)
                        ELSE blank_size[j]]
    /\ xi' = xi + 1
    /\ UNCHANGED <<pages, src_exists, should_move, xpc, default_size, notExp>>

\* the loop of line 135 is over
ExportDone ==
    /\ xpc = "pages"
    /\ xi = Len(pages)
    /\ xpc' = "done"
    /\ UNCHANGED <<pages, src_exists, should_move, xi, default_size, blank_size, notExp>>

ExpNext == ExportReference \/ ExportFilePage \/ ExportBlankPage \/ ExportDone

(***************************************************************************)
(* Specifications                                                          *)
(***************************************************************************)
CoreIdle == LruIdle /\ PsdIdle /\ KeyIdle /\ ThIdle /\ ValIdle /\ GenIdle
CmdIdle  == RecIdle /\ PollIdle /\ ExpIdle

InitLRU == LruInit /\ PsdIdle /\ KeyIdle /\ ThIdle /\ ValIdle /\ GenIdle /\ CmdIdle
SpecLRU == InitLRU /\ [][LruNext]_vars

InitPsd == PsdInit /\ LruIdle /\ KeyIdle /\ ThIdle /\ ValIdle /\ GenIdle /\ CmdIdle
SpecPsd == InitPsd /\ [][PsdNext]_vars

InitKey == KeyInit /\ LruIdle /\ PsdIdle /\ ThIdle /\ ValIdle /\ GenIdle /\ CmdIdle
SpecKey == InitKey /\ [][KeyNext]_vars

\* thumbnail/mod.rs
Init == ThInit("mod") /\ LruIdle /\ PsdIdle /\ KeyIdle /\ ValIdle /\ GenIdle /\ CmdIdle
Next == ThNext
Spec == Init /\ [][Next]_vars

\* tokio runs every spawn_blocking closure on a thread of its own (thumbnail/
\* mod.rs:40), so a task that can take its next step does take it; dispatching
\* a request, collecting its result and deleting a source are up to the user
TaskFairness ==
    \A r \in Reqs : WF_vars(Probe(r) \/ Generate(r) \/ Create(r) \/ Write(r))
SpecFair == Init /\ [][Next]_vars /\ TaskFairness

\* lib.rs
InitLib == ThInit("lib") /\ LruIdle /\ PsdIdle /\ KeyIdle /\ ValIdle /\ GenIdle /\ CmdIdle
SpecLib == InitLib /\ [][Next]_vars

InitVal == ValInit /\ LruIdle /\ PsdIdle /\ KeyIdle /\ ThIdle /\ GenIdle /\ CmdIdle
SpecVal == InitVal /\ [][ValNext]_vars

InitGen == GenInit /\ LruIdle /\ PsdIdle /\ KeyIdle /\ ThIdle /\ ValIdle /\ CmdIdle
SpecGen == InitGen /\ [][GenNext]_vars

\* the polling thread sleeps 500 ms and runs again (tiff.rs:206): it always
\* takes its next iteration; the editor owes nothing
InitPoll == PollInit /\ CoreIdle /\ RecIdle /\ ExpIdle
SpecPoll == InitPoll /\ [][PollNext]_vars /\ WF_vars(Poll)

InitExport == ExpInit /\ CoreIdle /\ RecIdle /\ PollIdle
SpecExport == InitExport /\ [][ExpNext]_vars

InitRecent == RecInit /\ CoreIdle /\ PollIdle /\ ExpIdle
SpecRecent == InitRecent /\ [][RecNext]_vars

(***************************************************************************)
(* Claims                                                                  *)
(***************************************************************************)
Range(seq) == {seq[i] : i \in 1 .. Len(seq)}
Rank(seq, k) == CHOOSE i \in 1 .. Len(seq) : seq[i] = k

\* C1: for every capacity N, N = 0 included, the mapping of the memory
\* cache never holds more than N entries.
C1_CapacityInvariant == Cardinality(DOMAIN mc.cache) <= mc.max_size

\* C2: an insert of a key that is not cached, into a cache that is at capacity
\* and holds an entry, removes exactly one entry, the one whose most recent
\* touch (get hit or insert) is the oldest, and keeps every other entry.
C2_EvictsLeastRecentlyTouched ==
    [][(/\ lastCall'.op = "insert"
        /\ lastCall'.key \notin DOMAIN mc.cache
        /\ Cardinality(DOMAIN mc.cache) >= mc.max_size
        /\ DOMAIN mc.cache # {})
       => LET victim == CHOOSE k \in DOMAIN mc.cache :
                            \A j \in DOMAIN mc.cache :
                                Rank(touchSeq, k) <= Rank(touchSeq, j)
          IN  /\ DOMAIN mc'.cache = (DOMAIN mc.cache \ {victim}) \cup {lastCall'.key}
              /\ \A k \in DOMAIN mc.cache \ {victim} : mc'.cache[k] = mc.cache[k]
      ]_vars

\* capacity 3: insert 1, 2, 3; get(1); insert 4 has evicted 2 and kept 1, 3, 4
C2_Witness ==
    /\ mc.max_size = 3
    /\ touchSeq = <<2, 3, 1, 4>>
    /\ DOMAIN mc.cache = {1, 3, 4}
    /\ lastCall.op = "insert"
    /\ lastCall.key = 4

Complete(r) == Rendition(req[r].path, req[r].time)
Writers(file) ==
    {r \in Reqs : req[r].pc \in {"create", "write"}
                  /\ cached_path(variant, req[r].key) = file}

\* C3: no request sees the cache file of its key as a hit while the file is
\* empty or partial, and once no write to a cache file is under way the file
\* holds one complete rendition.
C3_DuplicateWorkIsSafe ==
    /\ \A r \in Reqs : req[r].seen # None => req[r].seen[1] = Complete(r)
    /\ \A r \in Reqs :
          (req[r].pc = "done" /\ req[r].status = "generated"
             /\ {w \in Writers(cached_path(variant, req[r].key)) : req[w].pc = "write"} = {})
          => disk.files[cached_path(variant, req[r].key)] = Complete(r)

\* C4: the resource scan ends on every input: an iteration that does not end
\* the scan leaves the cursor strictly past where the iteration began, one that
\* does not advance it ends the scan with None, every iteration that goes on
\* has consumed at least 12 bytes of the input, and an iteration always has an
\* outcome.
C4_ScanTerminates ==
    /\ [][(ppc = "loop" /\ ppc' = "loop") => Lt(pos, pos')]_vars
    /\ [][(ppc = "loop" /\ ~Lt(pos, pos')) => (ppc' # "loop" /\ result' = None)]_vars
    /\ [](iters * 12 <= Len(data) + 12)
    /\ [](ppc = "loop" /\ Lt(pos, resources_end) => ScanRecord(data, pos) # {})

\* two records were skipped and the scan has ended
C4_Witness == PsdDone /\ iters >= 2 /\ Lt(loop_start_pos, pos)

\* C5: on every input the extractor neither panics nor reads a byte at an
\* index at or beyond the length of the buffer.
C5_NoPanicNoOverread == ppc # "panic" /\ maxRead <= Len(data)

GenErrors == {"err:unsupported", "err:decode", "err:read"}
Mutations == {"disk_create", "disk_write"}

\* C6: (thumbnail/mod.rs) a request that starts and probes while the rendition
\* a "generated" return left for its key is untouched, its source still there,
\* returns the same key and path with status "cached", and neither reads the
\* source nor renders.
C6_RoundTrip ==
    \A r \in Reqs :
        (req[r].pc = "done" /\ req[r].fresh # None)
        => /\ req[r].status = "cached"
           /\ req[r].out = req[r].fresh
           /\ req[r].trace = <<"source_exists", "disk_probe">>

C6_Witness ==
    \E r \in Reqs : req[r].pc = "done" /\ req[r].fresh # None
                    /\ req[r].status = "cached"

\* C7: a request whose generation fails (format selection, decoding,
\* validation, rendering) returns an error, and no step it takes changes the
\* memory cache or the files of the disk cache.
C7_FailedGenerationLeavesCaches ==
    /\ [](\A r \in Reqs :
            req[r].genfail => /\ req[r].pc = "done"
                              /\ req[r].status \in GenErrors
                              /\ Range(req[r].trace) \cap Mutations = {})
    /\ [][\A r \in Reqs :
            (req'[r].genfail /\ req'[r] # req[r])
            => (disk' = disk /\ app_mc' = app_mc)]_vars

\* a generation has failed while the disk cache holds a rendition
C7_Witness ==
    \E r \in Reqs : /\ req[r].genfail
                    /\ req[r].status = "err:decode"
                    /\ DOMAIN disk.files # {}

Before(trace, a, b) ==
    \A i \in 1 .. Len(trace) : trace[i] = b => \E j \in 1 .. i - 1 : trace[j] = a

Succeeded(r) == req[r].pc = "done" /\ req[r].status \in {"cached", "generated"}

C10_KeySensitivity ==
    kpc = "done" =>
        /\ reqA # reqB => keyA.lib # keyB.lib
        /\ (\E f \in {"file_path", "modified_time", "size"} : reqA[f] # reqB[f])
           => keyA.mod # keyB.mod

C10_Witness ==
    /\ kpc = "done"
    /\ reqA.size = 96 /\ reqB.size = 9 /\ reqA.quality = 6
    /\ keyA.lib # keyB.lib

\* C17: the keys of the recency ordering are the keys of the mapping, each
\* once.
C17_NoOrphans ==
    /\ Range(mc.order) = DOMAIN mc.cache
    /\ Len(mc.order) = Cardinality(DOMAIN mc.cache)

\* an update of a cached key and an eviction have both happened
C17_Witness ==
    /\ lastCall.op = "insert"
    /\ Len(touchSeq) > Len(mc.order)
    /\ Len(mc.order) >= 2
    /\ mc.order[Len(mc.order)] = lastCall.key

\* C18: get of a cached key returns the value last inserted for it and makes
\* it the most recently used, the mapping and the order of the other keys
\* staying as they were; get of a key that is not cached returns None and
\* changes nothing.
C18_GetPromotesOnly ==
    [][lastCall'.op = "get" =>
         LET key == lastCall'.key IN
         IF key \in DOMAIN mc.cache
         THEN /\ lastCall'.ret = Some(lastIns[key])
              /\ mc'.cache = mc.cache
              /\ mc'.order[Len(mc'.order)] = key
              /\ Retain(mc'.order, key) = Retain(mc.order, key)
              /\ Len(mc'.order) = Len(mc.order)
         ELSE /\ lastCall'.ret = None
              /\ mc' = mc
      ]_vars

\* a get has moved the oldest of three keys to the back
C18_Witness ==
    /\ lastCall.op = "get"
    /\ lastCall.ret # None
    /\ Len(mc.order) = 3
    /\ mc.order[3] = lastCall.key
    /\ touchSeq[1] # lastCall.key
    /\ Rank(touchSeq, mc.order[1]) < Rank(touchSeq, mc.order[2])

\* C19: insert of a key that is cached replaces its value, makes it the most
\* recently used and evicts nothing, also when the cache is at capacity.
C19_UpdateEvictsNothing ==
    [][(lastCall'.op = "insert" /\ lastCall'.key \in DOMAIN mc.cache) =>
         LET key == lastCall'.key IN
         /\ mc'.cache = [mc.cache EXCEPT ![key] = lastCall'.value]
         /\ mc'.order[Len(mc'.order)] = key
         /\ Retain(mc'.order, key) = Retain(mc.order, key)
         /\ Len(mc'.order) = Len(mc.order)
      ]_vars

\* a cached key was given another value while the cache was at capacity
C19_Witness ==
    /\ lastCall.op = "insert"
    /\ mc.max_size >= 2
    /\ Cardinality(DOMAIN mc.cache) = mc.max_size
    /\ touchSeq = mc.order
    /\ mc.order[1] > lastCall.key
    /\ mc.cache[lastCall.key] = "v2"
    /\ lastIns = mc.cache

\* C11: for a layered source that could be read, the embedded preview is
\* rendered directly exactly when there is a preview whose larger side is at
\* least the target size; otherwise the full composite decoder runs.
C11_FastPathThreshold ==
    (gsrc.kind = "psd" /\ gpc \in {"composite", "render", "done"} /\ gsrc.readable)
    => LET p    == gsrc.preview
           T    == W(THUMBNAIL_SIZE(gv))
           big  == /\ p.is = "image"
                   /\ ~(Lt(p.width, T) /\ Lt(p.height, T))
           full == gpc = "composite" \/ "psd_parse" \in Range(gtrace)
       IN  /\ big => (~full /\ gimg.from = "embedded")
           /\ ~big => (full /\ gimg.from # "embedded")

\* C12: create_thumbnail runs only after validate_dimensions was applied to
\* the raster it is given, so only on a raster that passes it.
C12_ValidationPrecedesRendering ==
    "create_thumbnail" \in Range(gtrace)
    => /\ Before(gtrace, "validate", "create_thumbnail")
       /\ validate_dimensions(gimg.width, gimg.height) = "Ok"

\* C13: validate_dimensions returns Ok exactly when both sides are between 1
\* and 65535 and width * height is at most 100,000,000.
C13_ValidatorAcceptanceSet ==
    vpc = "done" =>
        LET inRange == /\ vwidth[1] = 0 /\ vheight[1] = 0
                       /\ vwidth[2] >= 1 /\ vheight[2] >= 1
            fits    == vheight[2] <= 100000000 \div vwidth[2]
            At(w, h) == vwidth = W(w) /\ vheight = W(h)
        IN  /\ (vres = "Ok") <=> (inRange /\ fits)
            /\ vres \in {"Ok", "Err:zero", "Err:dimension", "Err:pixels"}
            /\ (At(0, 100) \/ At(100, 0) \/ At(70000, 10) \/ At(20000, 20000))
               => vres # "Ok"
            /\ At(1920, 1080) => vres = "Ok"

\* 10000 x 10000 is exactly the pixel cap and is accepted
C13_Witness ==
    /\ vpc = "done" /\ vres = "Ok"
    /\ vwidth = W(10000) /\ vheight = W(10000)

\* what a request that went on to generate can end with
GenOutcomes == GenErrors \cup {"generated", "err:write"}

\* C14: a disk cache probe that fails, with "not found" or with any other
\* read error, is a miss: the request goes on to generate and what it returns
\* is the outcome of the generation, never the read error.
C14_ReadErrorsAreMisses ==
    \A r \in Reqs :
        req[r].io \in {"NotFound", "PermissionDenied"}
        => /\ req[r].seen = None
           /\ req[r].pc \in {"generate", "create", "write", "done"}
           /\ req[r].trace[Len(req[r].trace)] = "disk_probe"
              => \/ req[r].pc = "generate" /\ req[r].status = ""
                 \/ req[r].pc = "done" /\ req[r].status = "err:unsupported"
           /\ req[r].pc = "done" => req[r].status \in GenOutcomes

\* a probe failed with a permission error and the source was rendered
C14_Witness ==
    \E r \in Reqs : /\ req[r].io = "PermissionDenied"
                    /\ "render" \in Range(req[r].trace)

\* C15: a request whose write to the disk cache fails returns the I/O error,
\* not "generated", and the memory cache is not populated.
C15_WriteFailureSurfaced ==
    \A r \in Reqs :
        (/\ req[r].pc = "done"
         /\ "disk_create" \in Range(req[r].trace)
         /\ ~(disk.dir_ok /\ disk.perm_ok))
        => /\ req[r].status = "err:write"
           /\ req[r].out = None
           /\ req[r].key \notin DOMAIN app_mc.cache

\* a rendered thumbnail could not be written
C15_Witness ==
    \E r \in Reqs : /\ req[r].pc = "done"
                    /\ req[r].status = "err:write"
                    /\ "render" \in Range(req[r].trace)
                    /\ disk.dir_ok /\ ~disk.perm_ok

\* C16: when the cache directory could not be created, ThumbnailCache::new
\* still returns the cache and the application runs; every probe of the disk
\* cache is then a miss.
C16_CacheRootFailureNonFatal ==
    /\ disk.managed
    /\ ~disk.dir_ok =>
         /\ DOMAIN disk.files = {}
         /\ \A r \in Reqs :
               /\ req[r].seen = None
               /\ req[r].status # "cached"
               /\ req[r].io \in {"", "NotFound"}

\* without a cache directory a request was accepted, missed and generated
C16_Witness ==
    /\ ~disk.dir_ok
    /\ \E r \in Reqs : /\ req[r].io = "NotFound"
                       /\ "render" \in Range(req[r].trace)

\* C20: a request that missed the cache and whose extension, lower-cased, is
\* not psd, tif, tiff, jpg, jpeg or png returns the unsupported-format error
\* without reading the source or writing a cache file; an upper-case .PSD is
\* supported.
C20_UnsupportedFormat ==
    \A r \in Reqs :
        /\ (req[r].path = TextFile /\ req[r].pc \in {"create", "write", "done"})
           => /\ req[r].pc = "done"
              /\ req[r].status = "err:unsupported"
              /\ req[r].trace = <<"source_exists", "disk_probe">>
              /\ cached_path(variant, req[r].key) \notin DOMAIN disk.files
        /\ req[r].path \in {GoodPsd, BadPsd} => req[r].status # "err:unsupported"

C20_Witness ==
    \E r \in Reqs : /\ req[r].path = TextFile
                    /\ req[r].status = "err:unsupported"
                    /\ DOMAIN disk.files # {}

\* The record that begins at offset s (0-based) of d, read field by field.
RecSig(d, s)     == SubSeq(d, s + 1, s + 4)
RecId(d, s)      == d[s + 5] * 256 + d[s + 6]
RecSizeAt(d, s)  == s + 7 + (IF d[s + 7] % 2 = 0 THEN d[s + 7] + 1 ELSE d[s + 7])
RecSize(d, s)    == LET q == RecSizeAt(d, s) IN
                    <<d[q + 1] * 256 + d[q + 2], d[q + 3] * 256 + d[q + 4]>>
RecPayload(d, s) == RecSizeAt(d, s) + 4
RecFormat(d, s)  == LET q == RecPayload(d, s) IN
                    <<d[q + 1] * 256 + d[q + 2], d[q + 3] * 256 + d[q + 4]>>
\* d holds a record header at s, up to and including the size field
RecHeaderIn(d, s) ==
    /\ Len(d) >= s + 7
    /\ RecSig(d, s) = SIG_8BIM
    /\ Len(d) >= RecPayload(d, s)
IsThumbId(id) == id \in {1036, 1033}
\* the record the last iteration began at
LastRec == loop_start_pos[2]

\* C22: a thumbnail record with format code 1 and a declared size of 28 or
\* less ends the scan with None at once: nothing beyond the 28-byte sub-header
\* is read, no payload buffer is reserved, the scan does not panic on the
\* subtraction and no later record is looked at.
C22_SizeGuard ==
    (/\ iters >= 1
     /\ RecHeaderIn(data, LastRec)
     /\ IsThumbId(RecId(data, LastRec))
     /\ Len(data) >= RecPayload(data, LastRec) + 28
     /\ RecFormat(data, LastRec) = W(1)
     /\ Le(RecSize(data, LastRec), W(28)))
    => /\ ppc = "done"
       /\ result = None
       /\ pos = W(RecPayload(data, LastRec) + 28)
       /\ maxRead <= RecPayload(data, LastRec) + 28
       /\ alloc = W(0)

\* a record of declared size 27 ended the scan with a record left behind it
C22_Witness ==
    /\ iters = 1 /\ ppc = "done" /\ result = None
    /\ RecHeaderIn(data, LastRec)
    /\ IsThumbId(RecId(data, LastRec))
    /\ Len(data) > RecPayload(data, LastRec) + 28
    /\ RecFormat(data, LastRec) = W(1)
    /\ RecSize(data, LastRec) = W(27)

\* C23: after a record was skipped (here: one that declares less than
\* 0xFFFFFFFF bytes), the next record is parsed at the record's payload start
\* plus its size rounded up to an even number.
C23_SkipIsExact ==
    (/\ ppc = "loop" /\ iters >= 1
     /\ RecHeaderIn(data, LastRec)
     /\ RecSize(data, LastRec) # U32MAX)
    => LET size == RecSize(data, LastRec) IN
       pos = Add(Add(W(RecPayload(data, LastRec)), size), W(size[2] % 2))

\* C24: for every declared size the skip length is size + (size mod 2): the
\* rounding neither traps nor wraps.
C24_RoundingDoesNotOverflow ==
    /\ ppc # "panic"
    /\ (/\ ppc = "loop" /\ iters >= 1
        /\ RecHeaderIn(data, LastRec)
        /\ ~IsThumbId(RecId(data, LastRec)))
       => LET size == RecSize(data, LastRec) IN
          pos = Add(Add(W(RecPayload(data, LastRec)), size), W(size[2] % 2))

\* C27: the payload buffer the extractor reserves is never larger than the
\* input.
C27_AllocationBoundedByInput ==
    Le(alloc, W(Len(data)))

\* A record template is well formed when its header, its declared payload and
\* the padding byte lie inside it and nothing follows them.
WellFormedRecord(rec) ==
    /\ Len(rec) >= 7 /\ RecHeaderIn(rec, 0)
    /\ RecSize(rec, 0)[1] = 0
    /\ LET size == RecSize(rec, 0)[2] IN
       /\ Len(rec) = RecPayload(rec, 0) + size + (size % 2)
       /\ IsThumbId(RecId(rec, 0)) => size >= 27
\* the record carries a JPEG preview: thumbnail id, format 1, more than 28 bytes
Qualifies(rec) ==
    /\ IsThumbId(RecId(rec, 0))
    /\ RecFormat(rec, 0) = W(1)
    /\ Lt(W(28), RecSize(rec, 0))
\* a thumbnail record with format 1 and 28 bytes or less (the case of C22)
EmptyPreview(rec) ==
    /\ IsThumbId(RecId(rec, 0))
    /\ RecFormat(rec, 0) = W(1)
    /\ Le(RecSize(rec, 0), W(28))
PreviewPayload(rec) ==
    SubSeq(rec, RecPayload(rec, 0) + 28 + 1, RecPayload(rec, 0) + RecSize(rec, 0)[2])
RECURSIVE FirstPreview(_)
FirstPreview(kinds) ==
    IF kinds = <<>> THEN None
    ELSE IF Qualifies(RecordKinds[Head(kinds)])
         THEN Some(PreviewPayload(RecordKinds[Head(kinds)]))
         ELSE FirstPreview(Tail(kinds))

\* C21: on a container made of well-formed records only (none of them an
\* empty format-1 thumbnail record), the scan ends with the payload of the
\* first record that has a thumbnail id, format code 1 and more than 28 bytes,
\* whatever precedes it, and with None only if there is no such record.
C21_FirstPreviewReturned ==
    \A kinds \in RecordLists :
        (/\ \A i \in 1 .. Len(kinds) :
                /\ WellFormedRecord(RecordKinds[kinds[i]])
                /\ ~EmptyPreview(RecordKinds[kinds[i]])
         /\ data = WellFormed(kinds)
         /\ PsdDone)
        => /\ ppc = "done"
           /\ result = FirstPreview(kinds)

\* C26: a request whose source was missing returned the file-not-found error
\* after the existence check alone, with no probe of the disk cache and no
\* write to it, whether or not a cache file for its key exists; "cached" is
\* only returned to a request whose source existed when it ran.
C26_MissingSourceFirst ==
    \A r \in DOMAIN req :
        /\ (req[r].pc # "idle" /\ ~req[r].existed)
           => /\ req[r].pc = "done"
              /\ req[r].status = "err:notfound"
              /\ req[r].trace = <<"source_exists">>
        /\ req[r].status = "cached" => req[r].existed

\* the source is gone, a cache file for the request's key is on disk
C26_Witness ==
    \E r \in DOMAIN req :
        /\ req[r].status = "err:notfound"
        /\ ~source[req[r].path].exists
        /\ cached_path(variant, req[r].key) \in DOMAIN disk.files

\* the steps a request's position may take: key derived and source checked,
\* cache checked, decoded and rendered, persisted, returned; "done" is
\* reached from every position (the result or the error exit)
PcOrder ==
    {<<"idle", "probe">>, <<"probe", "generate">>, <<"generate", "create">>,
     <<"create", "write">>, <<"write", "write">>}
    \cup {<<p, "done">> : p \in {"idle", "probe", "generate", "create", "write"}}
    \cup {<<"done", "idle">>}

\* C25: every dispatched request comes to return a result or an error,
\* whatever the other requests do, and on its way it passes its positions in
\* the one order idle, probe, generate, create, write, done.
C25_EveryRequestCompletes ==
    /\ [][\A r \in Reqs : req'[r].pc # req[r].pc
                            => <<req[r].pc, req'[r].pc>> \in PcOrder]_vars
    /\ \A r \in Reqs : (req[r].pc \notin {"idle", "done"}) ~> (req[r].pc = "done")

\* one request has returned a generated thumbnail while another is persisting
C25_Witness ==
    \E r1, r2 \in Reqs :
        /\ r1 # r2
        /\ req[r1].pc = "done" /\ req[r1].status = "generated"
        /\ req[r2].pc = "write" /\ req[r2].key = req[r1].key

\* the paths of a stored list, in order
Paths(list) == [i \in 1 .. Len(list) |-> list[i].path]
NoDuplicates(seq) == \A i, j \in 1 .. Len(seq) : seq[i] = seq[j] => i = j
RECURSIVE Without(_, _)
Without(seq, x) ==
    IF seq = <<>> THEN <<>>
    ELSE IF Head(seq) = x THEN Without(Tail(seq), x)
         ELSE <<Head(seq)>> \o Without(Tail(seq), x)
IsPrefix(a, b) == Len(a) <= Len(b) /\ a = SubSeq(b, 1, Len(a))

\* C30: whatever calls were made, the stored list has no two entries with the
\* same path; once a call has succeeded it has at most ten entries and, while
\* the file is intact, the path added last is first; and a successful call
\* leaves behind it the other entries in their old order, cut at the end only.
C30_RecentListInvariant ==
    LET list == load(recent_file) IN
    /\ NoDuplicates(Paths(list))
    /\ radded # 0 => Len(list) <= RECENT_MAX
    /\ (rlast = "Ok")
       => /\ list # <<>>
          /\ list[1].path = radded
          /\ LET others == Without(Paths(rbefore), radded)
                 rest   == Tail(Paths(list)) IN
             /\ IsPrefix(rest, others)
             /\ Len(rest) = Min(Len(others), RECENT_MAX - 1)

\* the list is full; its first entry was put there by the last call, its
\* second by an earlier call, and entries stored before the calls remain
C30_Witness ==
    LET list == load(recent_file) IN
    /\ rlast = "Ok" /\ rcalls = MaxAdds
    /\ Len(list) = RECENT_MAX
    /\ list[1].opened_at = rcalls
    /\ list[2].opened_at \in 1 .. rcalls - 1
    /\ list[RECENT_MAX].opened_at = 0
    /\ \E i \in 1 .. RECENT_MAX : list[i].path > RECENT_MAX

\* C28: once the editor has stopped writing its files, whatever it wrote
\* before, the polling loop comes to its exit.
C28_PollingTerminates ==
    <>[][~EditorStep]_vars => <>(tpc = "exited")

\* page j's source exists when the blank page i is written: a page before i
\* has been copied or moved by then, a page after i is as it was
ExistsAt(i, j) == IF j < i THEN src_exists[j] ELSE pages[j].there
Supplies(i, j) == ExistsAt(i, j) /\ pages[j].dims.is = "image"
\* the size the blank page i is to get: that of the nearest page before it
\* that supplies one, else of the nearest page after it that does, else the
\* reference size
ExpectedBlankSize(i) ==
    LET before == {j \in 1 .. i - 1 : Supplies(i, j)}
        after  == {j \in i + 1 .. Len(pages) : Supplies(i, j)} IN
    IF before # {}
    THEN pages[CHOOSE j \in before : \A k \in before : k <= j].dims
    ELSE IF after # {}
    THEN pages[CHOOSE j \in after : \A k \in after : k >= j].dims
    ELSE default_size

\* C29: (for pages whose existing sources all have valid dimensions) every
\* blank page written got the size of the nearest preceding page whose source
\* exists; of a following page only when no preceding page supplies a size;
\* the reference size only when none does.
C29_BlankSizeFromNearestPage ==
    (\A j \in 1 .. Len(pages) : pages[j].there => pages[j].dims.is = "image")
    => \A i \in DOMAIN blank_size : blank_size[i] = ExpectedBlankSize(i)

====
